---- MODULE Spec2Model ----
(***************************************************************************)
(* Terminal ownership transfer of the fish shell (fish-rust/src/proc.rs,   *)
(* TtyTransfer) and its caller, the fg builtin (builtins/fg.rs).           *)
(*                                                                         *)
(* The shell is single threaded: every method of TtyTransfer runs to its   *)
(* end before the caller continues.  What runs concurrently is the kernel  *)
(* side: the job's processes (which claim the terminal for their own       *)
(* process group, and exit) and the terminal itself (which may go away).   *)
(* Each system call of the shell is therefore one atomic step, and the     *)
(* environment's steps interleave between them.                            *)
(***************************************************************************)
EXTENDS Integers, Sequences, FiniteSets

\* ------------------------------------------------------------------ bounds
\* The system calls of one call are counted up to this number; the retry loop
\* itself has no limit (proc.rs:117).
MaxAssign == 4
\* Largest number of processes in the job's process group.
MaxProcs == 2
\* Number of distinct terminal discipline states (termios values).
NumModes == 2
\* Largest number of successful transfers followed without a reclaim.
MaxBinds == 2

\* --------------------------------------------------------------- constants
\* Option<T>: None, Some(v).
None == <<>>
Some(v) == <<v>>

\* libc::getpgrp(): the shell's own process group.
FishPgrp == 1
\* A process group of the session that is neither the shell's nor the job's.
OtherPgrp == 2
\* The process group the job's leader created for the job.
ChildPgid == 3
\* A negative pid_t, which "assert!(pgid >= 0)" rejects.
InvalidPgid == -1

\* The one job group a transfer is about (fg's selected job).
JG == "jg"

\* What STDIN_FILENO refers to: the controlling terminal, a file that is no
\* terminal (ENOTTY), a closed descriptor (EBADF), or a terminal that has hung
\* up and fails every call with another errno (EIO).
StdinKinds == {"tty", "notty", "closed", "error"}

\* errno values the code distinguishes; EIO stands for every other one.
Errnos == {"EPERM", "EINVAL", "ENOTTY", "EBADF", "EIO", "ECHILD"}

Modes == 1..NumModes

\* A counter of system calls, counted up to max.
Count(n, max) == IF n < max THEN n + 1 ELSE n

VARIABLES
    owner,      \* TtyTransfer.owner: None or Some(JG)
    pc,         \* position of the shell's thread
    panicMsg,   \* message of the assertion that failed, once pc = "panic"
    wants,      \* JobGroup.wants_terminal()
    pgid,       \* JobGroup.get_pgid(): None or Some(pid)
    tmodes,     \* JobGroup.tmodes: None or Some(mode)
    stdin,      \* what STDIN_FILENO is
    ttyOwner,   \* the terminal's foreground process group
    termios,    \* the terminal's discipline state
    nrun,       \* running processes of the job's process group
    nzomb,      \* exited, not yet waited-for processes of the group
    errno,      \* the thread's errno
    \* observations of the call in progress, or of the last call
    lastOp,     \* the method called last
    preOwner,   \* owner when that call began
    result,     \* what try_transfer returned: "none", "true", "false"
    q0,         \* what the query of line 95 reported: None or Some(pgrp)
    nassign,    \* tcsetpgrp(STDIN, pgid) calls of the call
    nquery,     \* tcgetpgrp(STDIN) calls of the call
    nprobe,     \* waitpid(-pgid, WNOHANG) calls of the call
    nreclaim,   \* tcsetpgrp(STDIN, getpgrp()) calls of the call
    assignErrs, \* errno values the call's failed assignments returned
    probeGone,  \* the probe of this call reported no such group
    lastSys,    \* the last terminal system call of the call and its outcome
    ttyAtRet,   \* ttyOwner at the instant the call returned
    ttyAtCall,  \* ttyOwner at the instant the call began
    zombAtCall, \* nzomb at the instant the call began
    runAtCall,  \* nrun at the instant the call began
    binds,      \* successful transfers since the last reclaim
    warned,     \* reclaim logged "Could not return shell to foreground"
    redirected, \* redirect_tty_output() was called
    \* the fg builtin
    inFg,       \* fg's frame is on the stack, past the selection of the job
    fgArgs,     \* what the last fg call was given and found in the job list
    fgStatus,   \* the status the last fg call returned, "none" if it did not
    fgMsg,      \* the error message the last fg call printed
    fgLog,      \* what the last fg call did after it selected its job
    resumed,    \* what job.ffi_resume() returned to the last fg call, or None
    isForeground, \* JobGroup.is_foreground
    captured,   \* the modes the last successful tcgetattr of save_tty_modes read
    restored    \* the modes fg's tcsetattr installed since that capture

handleVars == <<owner, pc, panicMsg>>
jgVars     == <<wants, pgid, tmodes>>
kernelVars == <<stdin, ttyOwner, termios, nrun, nzomb, errno>>
callVars   == <<lastOp, preOwner, result, q0, nassign, nquery, nprobe, nreclaim,
                assignErrs,
                probeGone, lastSys, ttyAtRet, ttyAtCall, zombAtCall, runAtCall>>
logVars    == <<binds, warned, redirected>>
fgVars     == <<inFg, fgArgs, fgStatus, fgMsg, resumed, isForeground>>
modeVars   == <<captured, restored>>
vars == <<owner, pc, panicMsg, wants, pgid, tmodes, stdin, ttyOwner, termios,
          nrun, nzomb, errno, lastOp, preOwner, result, q0, nassign, nquery,
          nprobe, nreclaim, assignErrs, probeGone, lastSys, ttyAtRet, ttyAtCall,
          zombAtCall, runAtCall, binds, warned, redirected, inFg, fgArgs,
          fgStatus, fgMsg, fgLog, resumed, isForeground, captured, restored>>

\* ------------------------------------------------------------- the kernel
\* tcgetpgrp(STDIN_FILENO): the foreground process group, or -1 with errno.
TcGetPgrp == IF stdin = "tty" THEN ttyOwner ELSE -1

\* The errno of tcgetpgrp, tcgetattr and tcsetattr on a stdin that is not the
\* terminal: not a terminal, a closed descriptor, a terminal that hung up.
StdinErrno ==
    CASE stdin = "notty"  -> "ENOTTY"
      [] stdin = "closed" -> "EBADF"
      [] OTHER            -> "EIO"

\* The process group of the job exists as long as one of its processes has
\* not been waited for.
GroupExists == nrun + nzomb > 0

\* The errno of tcsetpgrp on a stdin that is not the terminal: EBADF for a
\* closed descriptor, ENOTTY otherwise, also for a terminal that hung up.
TcSetPgrpErrno ==
    CASE stdin = "closed" -> "EBADF"
      [] OTHER            -> "ENOTTY"

\* Outcomes of tcsetpgrp(STDIN_FILENO, pgid) for the job's group. On the
\* terminal: success needs the group, and each errno the code tells apart may
\* come back (EPERM also while the group lives, proc.rs:108-116). On anything
\* else the call fails with the errno of that kind of stdin.
TcSetPgrpOutcomes ==
    IF stdin = "tty"
      THEN (IF GroupExists THEN {"ok"} ELSE {})
               \cup {"EPERM", "EINVAL", "ENOTTY", "EIO"}
      ELSE {TcSetPgrpErrno}

\* tcsetpgrp(STDIN_FILENO, getpgrp()): the shell's own group always exists and
\* is in the terminal's session, so the call succeeds iff there is a terminal.
TcSetOwnPgrpOk == stdin = "tty"

\* The buffer save_tty_modes hands to tcgetattr, std::mem::zeroed()
\* (proc.rs:57); a failed call leaves it so.
ZeroedModes == 0

\* tcgetattr(STDIN_FILENO, &buf): <<result, buf after the call>>.
TcGetAttr == IF stdin = "tty" THEN <<0, termios>> ELSE <<-1, ZeroedModes>>

\* tcsetattr(STDIN_FILENO, TCSADRAIN, &m): the result and the terminal's modes
\* after the call.
TcSetAttr(m) == IF stdin = "tty" THEN <<0, m>> ELSE <<-1, termios>>

\* waitpid(-pgid, NULL, WNOHANG): the pid of a reaped zombie, 0 while members
\* only run, -1 (ECHILD) when the group has no member left.
WaitPid == IF nzomb > 0 THEN ChildPgid ELSE IF nrun > 0 THEN 0 ELSE -1

\* ------------------------------------------------------------- TtyTransfer
\* AssertOwner asking for an idle handle.
AssertOwnerIdle(o) == o = None

\* to_job_group's assertion (proc.rs:34).
AssertOwner(o) == o # None

\* try_transfer, lines 68-79: "false", a panic message, or "query".
Preamble(w, pg) ==
    IF ~w THEN "false"
    ELSE IF pg = None THEN "called Option::unwrap() on a None value"
    ELSE IF ~(pg[1] >= 0) THEN "Invalid pgid"
    ELSE IF ~(pg[1] # FishPgrp) THEN "Job should not have fish's pgroup"
    ELSE "query"

\* try_transfer, lines 95-106: the four cases of the first owner query.
InitialCase(current_owner, p) ==
    IF current_owner < 0 THEN "false"
    ELSE IF current_owner = p THEN "true"
    ELSE IF current_owner # p /\ current_owner # FishPgrp THEN "false"
    ELSE "assign"

\* try_transfer, lines 125-150: the owner query after a failed assignment.
RequeryCase(getpgrp_res, p) ==
    IF getpgrp_res < 0 THEN "false"
    ELSE IF getpgrp_res = p THEN "true"
    ELSE "classify"

\* try_transfer, lines 155-194: the assignment's errno.
ClassifyErrno(e) ==
    IF e = "EINVAL" THEN "terminated"
    ELSE IF e = "EPERM" THEN "probe"
    ELSE IF e = "ENOTTY" THEN "false"
    ELSE "false"

\* try_transfer, lines 196-212, for an iteration that reached the end of the
\* errno chain with pgroup_terminated as given: return false if it is set,
\* else break out of the loop and return true.
LoopExit(pgroup_terminated) == IF pgroup_terminated THEN "false" ELSE "true"

\* try_transfer, lines 163-179: the liveness probe's result.
ProbeCase(wait_result) == IF wait_result = -1 THEN "terminated" ELSE "continue"

\* IsBound taking every handle for a bound one.
IsBoundAlways(o) == TRUE

\* reclaim's guard (proc.rs:44) and save_tty_modes' guard (proc.rs:56).
IsBound(o) == o # None

\* The process group reclaim gives the terminal to (proc.rs:46).
ReclaimPgrp == FishPgrp

\* The owner reclaim leaves (proc.rs:51).
ReclaimedOwner(o) == None

\* AssertReclaimed asking for a bound handle.
AssertReclaimedInverted(o) == o # None

\* Drop's assertion (proc.rs:219).
AssertReclaimed(o) == o = None

\* The job group's tmodes after save_tty_modes' tcgetattr (proc.rs:57-60).
CapturedModes(old, res, buf) == IF res = 0 THEN Some(buf) ELSE old

\* The owner to_job_group leaves (proc.rs:36-39).
TransferredOwner(o, ok) == IF ok THEN Some(JG) ELSE o


\* ------------------------------------------------------------------- fg
\* What a call of fg is given: how its arguments read (an option error, an
\* exit code of the option parser that is no error, --help, no job argument,
\* more than one, one that is not a number, one that is a pid) and what the
\* job list holds for it: whether a job was found (for no argument: a stopped
\* job under job control that is not completed) and that job's flags.
NoArgs ==
    [mode |-> "none", found |-> FALSE, constructed |-> FALSE,
     completed |-> FALSE, jobctl |-> FALSE]

FgInputs ==
    {[NoArgs EXCEPT !.mode = m] :
        m \in {"opterr", "optillogical", "help", "nan"}}
    \cup {[NoArgs EXCEPT !.mode = "many", !.found = f] : f \in BOOLEAN}
    \cup {[NoArgs EXCEPT !.mode = "noargs"],
          [mode |-> "noargs", found |-> TRUE, constructed |-> TRUE,
           completed |-> FALSE, jobctl |-> TRUE]}
    \cup {[NoArgs EXCEPT !.mode = "pid"]}
    \cup {[mode |-> "pid", found |-> TRUE, constructed |-> c,
           completed |-> d, jobctl |-> j] :
            c \in BOOLEAN, d \in BOOLEAN, j \in BOOLEAN}

\* fg.rs:90-103, the job of the pid given: the message printed, "panic" for
\* the unwrap of a job that is not there, or "selected".
SelectByPid(found, constructed, completed, jobctl) ==
    IF found THEN "No suitable job"
    ELSE IF ~found THEN "panic"
    ELSE IF ~constructed \/ ~completed THEN "No suitable job"
    ELSE IF ~jobctl THEN "not under job control"
    ELSE "selected"

\* fg.rs:23-105: <<"return", status, message>>, <<"panic", message>> or
\* <<"proceed">> with the job selected.
FgSelect(a) ==
    CASE a.mode = "opterr" -> <<"return", "STATUS_INVALID_ARGS", "">>
      [] a.mode = "optillogical" ->
            <<"panic", "Illogical exit code from parse_options()">>
      [] a.mode = "help" -> <<"return", "STATUS_CMD_OK", "">>
      [] a.mode = "noargs" ->
            IF a.found THEN <<"proceed">>
            ELSE <<"return", "STATUS_CMD_ERROR", "There are no suitable jobs">>
      [] a.mode = "many" ->
            IF a.found THEN <<"return", "STATUS_CMD_ERROR", "Ambiguous job">>
            ELSE <<"return", "STATUS_CMD_ERROR", "is not a job">>
      [] a.mode = "nan" ->
            <<"return", "STATUS_INVALID_ARGS", "BUILTIN_ERR_NOT_NUMBER">>
      [] OTHER ->
            LET m == SelectByPid(a.found, a.constructed, a.completed,
                                 a.jobctl) IN
            IF m = "selected" THEN <<"proceed">>
            ELSE IF m = "panic"
              THEN <<"panic", "called Option::unwrap() on a None value">>
              ELSE <<"return", "STATUS_INVALID_ARGS", m>>

\* fg.rs:162: the saved modes are restored.
RestoreWanted(w, tm) == w /\ tm # None

\* fg.rs:182-185: fg's status, from what the resume returned.
FgStatusOf(r) == IF r THEN "STATUS_CMD_OK" ELSE "STATUS_CMD_ERROR"


\* ------------------------------------------------------------------- Init
\* A handle as TtyTransfer::new() leaves it (proc.rs:27-29), in the hands of
\* its caller. The job group and the kernel's state are any the shell can meet.
Init ==
    /\ owner = None
    /\ pc = "caller"
    /\ panicMsg = ""
    /\ wants \in BOOLEAN
    /\ pgid \in {None, Some(InvalidPgid), Some(FishPgrp), Some(ChildPgid)}
    /\ tmodes = None
    /\ stdin \in StdinKinds
    /\ ttyOwner \in {FishPgrp, OtherPgrp, ChildPgid}
    /\ (ttyOwner = ChildPgid => pgid = Some(ChildPgid))
    /\ termios \in Modes
    /\ nrun \in 0..MaxProcs
    /\ nzomb \in 0..MaxProcs
    /\ nrun + nzomb <= MaxProcs
    /\ (pgid # Some(ChildPgid) => nrun + nzomb = 0)
    /\ errno = "0"
    /\ lastOp = "none"
    /\ preOwner = owner
    /\ result = "none"
    /\ q0 = None
    /\ nassign = 0
    /\ nquery = 0
    /\ nprobe = 0
    /\ nreclaim = 0
    /\ assignErrs = {}
    /\ probeGone = FALSE
    /\ lastSys = <<"none", 0>>
    /\ ttyAtRet = ttyOwner
    /\ ttyAtCall = ttyOwner
    /\ zombAtCall = nzomb
    /\ runAtCall = nrun
    /\ binds = 0
    /\ warned = FALSE
    /\ redirected = FALSE
    /\ inFg = FALSE
    /\ fgArgs = NoArgs
    /\ fgStatus = "none"
    /\ fgMsg = ""
    /\ fgLog = <<>>
    /\ resumed = None
    /\ isForeground = FALSE
    /\ captured = None
    /\ restored = None

\* ------------------------------------------------------- steps of a call
\* What every method call records when it begins.
BeginCall(op) ==
    /\ lastOp' = op
    /\ preOwner' = owner
    /\ ttyAtCall' = ttyOwner
    /\ zombAtCall' = nzomb
    /\ runAtCall' = nrun
    /\ q0' = None
    /\ probeGone' = FALSE
    /\ nassign' = 0
    /\ nquery' = 0
    /\ nprobe' = 0
    /\ assignErrs' = {}

\* No method of the handle is being called or was called last: what was
\* observed of the last call is dropped.
NoCall(op) ==
    /\ lastOp' = op
    /\ preOwner' = owner
    /\ ttyAtCall' = 0
    /\ zombAtCall' = 0
    /\ runAtCall' = 0
    /\ ttyAtRet' = 0
    /\ q0' = None
    /\ probeGone' = FALSE
    /\ nassign' = 0
    /\ nquery' = 0
    /\ nprobe' = 0
    /\ nreclaim' = 0
    /\ assignErrs' = {}
    /\ result' = "none"
    /\ lastSys' = <<"none", 0>>

\* A failed assertion or unwrap: the thread panics.
Panic(msg) ==
    /\ pc' = "panic"
    /\ panicMsg' = msg
    /\ UNCHANGED <<owner, binds>>

\* try_transfer returns ok to to_job_group, which binds the handle on true
\* (proc.rs:36-39) and returns to its caller, fg (fg.rs:172) or another; tty is
\* the terminal's owner then.
Finish(ok, tty) ==
    /\ owner' = TransferredOwner(owner, ok)
    /\ binds' = IF ok THEN binds + 1 ELSE binds
    /\ result' = IF ok THEN "true" ELSE "false"
    /\ pc' = IF inFg THEN "fg_resume" ELSE "caller"
    /\ panicMsg' = panicMsg
    /\ ttyAtRet' = tty

\* The call of to_job_group (proc.rs:33-40) up to try_transfer's first system
\* call (proc.rs:67-79).
ToJobGroupCall ==
    /\ pc \in {"caller", "fg_transfer"}
    /\ binds < MaxBinds
    /\ fgLog' = IF inFg THEN Append(fgLog, "handoff") ELSE fgLog
    /\ BeginCall("to_job_group")
    /\ nreclaim' = 0
    /\ lastSys' = <<"none", 0>>
    /\ IF ~AssertOwner(owner)
         THEN /\ Panic("Terminal already transferred")
              /\ result' = "none"
              /\ ttyAtRet' = ttyOwner
         ELSE LET pre == Preamble(wants, pgid) IN
              IF pre = "false" THEN Finish(FALSE, ttyOwner)
              ELSE IF pre = "query"
                THEN /\ pc' = "query"
                     /\ result' = "none"
                     /\ UNCHANGED <<owner, panicMsg, binds, ttyAtRet>>
                ELSE /\ Panic(pre)
                     /\ result' = "none"
                     /\ ttyAtRet' = ttyOwner
    /\ UNCHANGED <<fgVars, modeVars,
                   jgVars, kernelVars, warned, redirected>>

\* The first owner query and its four cases (proc.rs:95-106).
Query ==
    /\ pc = "query"
    /\ LET current_owner == TcGetPgrp
           c == InitialCase(current_owner, pgid[1]) IN
        /\ nquery' = Count(nquery, MaxAssign)
        /\ q0' = Some(current_owner)
        /\ lastSys' = <<"query", current_owner>>
        /\ errno' = IF current_owner < 0 THEN StdinErrno ELSE errno
        /\ UNCHANGED <<stdin, ttyOwner, termios, nrun, nzomb>>
        /\ IF c = "assign"
             THEN /\ pc' = "assign"
                  /\ UNCHANGED <<owner, panicMsg, binds, result, ttyAtRet>>
             ELSE Finish(c = "true", ttyOwner)
    /\ UNCHANGED <<fgVars, fgLog, modeVars,
                   jgVars, lastOp, preOwner, nassign, nprobe, nreclaim,
                   assignErrs, probeGone, ttyAtCall, zombAtCall, runAtCall, warned,
                   redirected>>

\* One evaluation of the loop condition, tcsetpgrp(STDIN_FILENO, pgid)
\* (proc.rs:117): success leaves the loop and returns true (proc.rs:212).
Assign ==
    /\ pc = "assign"
    /\ \E r \in TcSetPgrpOutcomes :
        /\ nassign' = Count(nassign, MaxAssign)
        /\ assignErrs' = IF r = "ok" THEN assignErrs ELSE assignErrs \cup {r}
        /\ IF r = "ok"
             THEN /\ ttyOwner' = pgid[1]
                  /\ errno' = errno
                  /\ lastSys' = <<"assign", 0>>
                  /\ Finish(TRUE, pgid[1])
             ELSE /\ ttyOwner' = ttyOwner
                  /\ errno' = r
                  /\ lastSys' = <<"assign", -1>>
                  /\ pc' = "requery"
                  /\ UNCHANGED <<owner, panicMsg, binds, result, ttyAtRet>>
    /\ UNCHANGED <<fgVars, fgLog, modeVars,
                   jgVars, stdin, termios, nrun, nzomb, lastOp, preOwner, q0,
                   nquery, nprobe, nreclaim, probeGone, ttyAtCall, zombAtCall,
                   runAtCall, warned, redirected>>

\* The owner query after a failed assignment, then the assignment's errno
\* (proc.rs:124-194).
Requery ==
    /\ pc = "requery"
    /\ LET getpgrp_res == TcGetPgrp
           c == RequeryCase(getpgrp_res, pgid[1])
           e == ClassifyErrno(errno) IN
        /\ nquery' = Count(nquery, MaxAssign)
        /\ lastSys' = <<"query", getpgrp_res>>
        /\ errno' = IF getpgrp_res < 0 THEN StdinErrno ELSE errno
        /\ redirected' = (redirected \/
                          (getpgrp_res < 0 /\ StdinErrno = "EBADF"))
        /\ UNCHANGED <<stdin, ttyOwner, termios, nrun, nzomb>>
        /\ IF c = "classify" /\ e = "probe"
             THEN /\ pc' = "probe"
                  /\ UNCHANGED <<owner, panicMsg, binds, result, ttyAtRet>>
             ELSE IF c = "classify" /\ e # "false"
               THEN Finish(LoopExit(e = "terminated") = "true", ttyOwner)
               ELSE Finish(c = "true", ttyOwner)
    /\ UNCHANGED <<fgVars, fgLog, modeVars,
                   jgVars, lastOp, preOwner, q0, nassign, nprobe, nreclaim,
                   assignErrs, probeGone, ttyAtCall, zombAtCall, runAtCall, warned>>

\* The liveness probe after EPERM (proc.rs:162-179): no such group ends the
\* call with false, anything else goes back to the loop condition.
Probe ==
    /\ pc = "probe"
    /\ LET wait_result == WaitPid
           c == ProbeCase(wait_result) IN
        /\ nprobe' = Count(nprobe, MaxAssign)
        /\ nzomb' = IF wait_result > 0 THEN nzomb - 1 ELSE nzomb
        /\ errno' = IF wait_result = -1 THEN "ECHILD" ELSE errno
        /\ probeGone' = (wait_result = -1)
        /\ UNCHANGED <<stdin, ttyOwner, termios, nrun>>
        /\ IF c = "terminated"
             THEN Finish(LoopExit(TRUE) = "true", ttyOwner)
             ELSE /\ pc' = "assign"
                  /\ UNCHANGED <<owner, panicMsg, binds, result, ttyAtRet>>
    /\ UNCHANGED <<fgVars, fgLog, modeVars,
                   jgVars, lastOp, preOwner, q0, nassign, nquery, nreclaim,
                   assignErrs, lastSys, ttyAtCall, zombAtCall, runAtCall, warned,
                   redirected>>

\* to_job_group (proc.rs:33-40) with the try_transfer it calls (proc.rs:67-213),
\* from one terminal system call to the next.
ToJobGroup ==
    CASE pc \in {"caller", "fg_transfer"} -> ToJobGroupCall
      [] pc = "query"   -> Query
      [] pc = "assign"  -> Assign
      [] pc = "requery" -> Requery
      [] pc = "probe"   -> Probe
      [] OTHER          -> FALSE

\* reclaim (proc.rs:43-52): one tcsetpgrp(STDIN_FILENO, getpgrp()) if the
\* handle is bound, a warning if that fails, and the handle unbound.
Reclaim ==
    /\ pc \in {"caller", "fg_reclaim"}
    /\ pc' = IF inFg THEN "fg_return" ELSE pc
    /\ fgLog' = IF inFg THEN Append(fgLog, "reclaim") ELSE fgLog
    /\ BeginCall("reclaim")
    /\ result' = "none"
    /\ IF IsBound(owner)
         THEN /\ nreclaim' = 1
              /\ IF TcSetOwnPgrpOk
                   THEN /\ ttyOwner' = ReclaimPgrp
                        /\ errno' = errno
                        /\ warned' = warned
                        /\ lastSys' = <<"reclaim", 0>>
                   ELSE /\ ttyOwner' = ttyOwner
                        /\ errno' = TcSetPgrpErrno
                        /\ warned' = TRUE
                        /\ lastSys' = <<"reclaim", -1>>
         ELSE /\ nreclaim' = 0
              /\ lastSys' = <<"none", 0>>
              /\ UNCHANGED <<ttyOwner, errno, warned>>
    /\ owner' = ReclaimedOwner(owner)
    /\ binds' = 0
    /\ ttyAtRet' = ttyOwner'
    /\ UNCHANGED <<fgVars, modeVars,
                   panicMsg, jgVars, stdin, termios, nrun, nzomb,
                   redirected>>

\* save_tty_modes (proc.rs:55-65): if the handle is bound, tcgetattr into the
\* owning job group's tmodes; a failure leaves tmodes as they were.
SaveTtyModes ==
    /\ pc \in {"caller", "fg_save"}
    /\ pc' = IF inFg THEN "fg_reclaim" ELSE pc
    /\ fgLog' = IF inFg THEN Append(fgLog, "save") ELSE fgLog
    /\ BeginCall("save_tty_modes")
    /\ result' = "none"
    /\ nreclaim' = 0
    /\ IF IsBound(owner)
         THEN /\ tmodes' = CapturedModes(tmodes, TcGetAttr[1], TcGetAttr[2])
              /\ IF TcGetAttr[1] = 0
                   THEN /\ captured' = Some(termios)
                        /\ restored' = None
                        /\ errno' = errno
                        /\ lastSys' = <<"tcgetattr", 0>>
                   ELSE /\ errno' = StdinErrno
                        /\ lastSys' = <<"tcgetattr", -1>>
                        /\ UNCHANGED modeVars
         ELSE /\ lastSys' = <<"none", 0>>
              /\ UNCHANGED <<tmodes, errno, modeVars>>
    /\ ttyAtRet' = ttyOwner
    /\ UNCHANGED <<fgVars,
                   owner, panicMsg, wants, pgid, stdin, ttyOwner, termios, nrun,
                   nzomb, logVars>>

\* Drop for TtyTransfer (proc.rs:217-221): the handle's scope ends.
Drop ==
    /\ pc = "caller"
    /\ NoCall("drop")
    /\ IF AssertReclaimed(owner)
         THEN /\ pc' = "dropped"
              /\ panicMsg' = panicMsg
         ELSE /\ pc' = "panic"
              /\ panicMsg' = "Forgot to reclaim() the tty"
    /\ UNCHANGED <<fgVars, fgLog, modeVars,
                   owner, jgVars, kernelVars, logVars>>

\* TtyTransfer::new() (proc.rs:27-29): a fresh, idle handle in the hands of a
\* caller other than fg; what was observed of the last fg call is dropped.
New ==
    /\ pc = "dropped"
    /\ NoCall("new")
    /\ owner' = None
    /\ pc' = "caller"
    /\ fgArgs' = NoArgs
    /\ fgStatus' = "none"
    /\ fgMsg' = ""
    /\ fgLog' = <<>>
    /\ resumed' = None
    /\ UNCHANGED <<inFg, isForeground, modeVars,
                   panicMsg, jgVars, kernelVars, logVars>>

\* The fg builtin (fg.rs:22-186), from one terminal system call to the next.
\* Its calls of to_job_group, save_tty_modes and reclaim are the actions
\* above; the handle it creates goes out of scope when it returns.
FgStep ==
    CASE pc = "dropped" ->
        \* fg.rs:23-161: the arguments, the job, the job made foreground
        \E a \in FgInputs :
            LET sel == FgSelect(a) IN
            /\ NoCall("fg")
            /\ fgArgs' = a
            /\ fgLog' = <<>>
            /\ resumed' = None
            /\ IF sel[1] = "proceed"
                 THEN /\ pc' = "fg_restore"
                      /\ inFg' = TRUE
                      /\ isForeground' = TRUE
                      /\ fgStatus' = "none"
                      /\ fgMsg' = ""
                      /\ panicMsg' = panicMsg
                 ELSE IF sel[1] = "panic"
                   THEN /\ pc' = "panic"
                        /\ panicMsg' = sel[2]
                        /\ fgStatus' = "none"
                        /\ fgMsg' = ""
                        /\ UNCHANGED <<inFg, isForeground>>
                   ELSE /\ pc' = "dropped"
                        /\ fgStatus' = sel[2]
                        /\ fgMsg' = sel[3]
                        /\ UNCHANGED <<panicMsg, inFg, isForeground>>
            /\ UNCHANGED <<owner, jgVars, kernelVars, logVars, modeVars>>
      [] pc = "fg_restore" ->
        \* fg.rs:162-169: the saved modes restored, the handle created
        /\ IF RestoreWanted(wants, tmodes)
             THEN LET res == TcSetAttr(tmodes[1]) IN
                  /\ termios' = res[2]
                  /\ errno' = IF res[1] = 0 THEN errno ELSE StdinErrno
                  /\ restored' = IF res[1] = 0 THEN Some(res[2]) ELSE restored
                  /\ fgLog' = Append(fgLog, "restore")
             ELSE UNCHANGED <<termios, errno, restored, fgLog>>
        /\ owner' = None
        /\ pc' = "fg_transfer"
        /\ UNCHANGED <<panicMsg, jgVars, stdin, ttyOwner, nrun, nzomb,
                       callVars, logVars, fgVars, captured>>
      [] pc = "fg_resume" ->
        \* fg.rs:173-177: the job resumed, then asked whether it is stopped
        \E r \in BOOLEAN, stopped \in BOOLEAN :
            /\ resumed' = Some(r)
            /\ fgLog' = Append(fgLog, "resume")
            /\ pc' = IF stopped THEN "fg_save" ELSE "fg_reclaim"
            /\ UNCHANGED <<owner, panicMsg, jgVars, kernelVars, callVars,
                           logVars, inFg, fgArgs, fgStatus, fgMsg,
                           isForeground, modeVars>>
      [] pc = "fg_return" ->
        \* fg.rs:182-186: the status, and the handle out of scope
        /\ IF AssertReclaimed(owner)
             THEN /\ pc' = "dropped"
                  /\ fgStatus' = FgStatusOf(resumed[1])
                  /\ panicMsg' = panicMsg
             ELSE /\ pc' = "panic"
                  /\ fgStatus' = "none"
                  /\ panicMsg' = "Forgot to reclaim() the tty"
        /\ inFg' = FALSE
        /\ UNCHANGED <<owner, jgVars, kernelVars, callVars, logVars, fgArgs,
                       fgMsg, fgLog, resumed, isForeground, modeVars>>
      [] OTHER -> FALSE

\* -------------------------------------------------------- the environment
\* A running process of the job calls tcsetpgrp() on its own process group
\* between fork and exec (proc.rs:88-91).
ChildClaim ==
    /\ pc # "panic"
    /\ pgid = Some(ChildPgid)
    /\ nrun > 0
    /\ stdin = "tty"
    /\ ttyOwner # ChildPgid
    /\ ttyOwner' = ChildPgid
    /\ UNCHANGED <<fgVars, fgLog, modeVars,
                   handleVars, jgVars, stdin, termios, nrun, nzomb, errno,
                   callVars, logVars>>

\* Another process group of the session takes the terminal from the shell's
\* group, as the shell's parent does when it puts the shell in the background
\* (proc.rs:91-92, "fish is running in the background with job control").
OtherClaim ==
    /\ pc # "panic"
    /\ stdin = "tty"
    /\ ttyOwner = FishPgrp
    /\ ttyOwner' = OtherPgrp
    /\ UNCHANGED <<fgVars, fgLog, modeVars,
                   handleVars, jgVars, stdin, termios, nrun, nzomb, errno,
                   callVars, logVars>>

\* A running process of the job exits and stays a zombie until waited for.
ProcExit ==
    /\ pc # "panic"
    /\ nrun > 0
    /\ nrun' = nrun - 1
    /\ nzomb' = nzomb + 1
    /\ UNCHANGED <<fgVars, fgLog, modeVars,
                   handleVars, jgVars, stdin, ttyOwner, termios, errno,
                   callVars, logVars>>

\* The terminal goes away: stdin is closed, replaced, or starts to fail.
StdinLost ==
    /\ pc # "panic"
    /\ stdin = "tty"
    /\ stdin' \in StdinKinds \ {"tty"}
    /\ UNCHANGED <<fgVars, fgLog, modeVars,
                   handleVars, jgVars, ttyOwner, termios, nrun, nzomb, errno,
                   callVars, logVars>>

\* A running process of the job changes the terminal's discipline state.
ModeChange ==
    /\ pc # "panic"
    /\ stdin = "tty"
    /\ nrun > 0
    /\ termios' \in Modes \ {termios}
    /\ UNCHANGED <<fgVars, fgLog, modeVars,
                   handleVars, jgVars, stdin, ttyOwner, nrun, nzomb, errno,
                   callVars, logVars>>

Next ==
    \/ ToJobGroup
    \/ Reclaim
    \/ SaveTtyModes
    \/ Drop
    \/ New
    \/ FgStep
    \/ ChildClaim
    \/ OtherClaim
    \/ ProcExit
    \/ StdinLost
    \/ ModeChange

Spec == Init /\ [][Next]_vars

\* The shell's thread is never stopped inside try_transfer: each of its
\* system calls returns and the next statement runs.
TransferStep == Query \/ Assign \/ Requery \/ Probe

\* An assignment the kernel accepts.
AssignOk == Assign /\ result' = "true"

\* The job's process group does one of the three things the retry loop waits
\* for: a process of it exits, it claims the terminal, or the kernel accepts
\* the shell's assignment for it.
GroupSettles == ProcExit \/ ChildClaim \/ AssignOk

\* The shell's thread keeps running, and nothing more.
SpecRunning == Init /\ [][Next]_vars /\ WF_vars(TransferStep)

\* The shell's thread keeps running and a process group that can settle again
\* and again eventually does (proc.rs:108-116).
SpecLive == Init /\ [][Next]_vars /\ WF_vars(TransferStep) /\ SF_vars(GroupSettles)

TypeOK ==
    /\ owner \in {None, Some(JG)}
    /\ pc \in {"caller", "query", "assign", "requery", "probe", "panic",
               "dropped", "fg_restore", "fg_transfer", "fg_resume", "fg_save",
               "fg_reclaim", "fg_return"}
    /\ inFg \in BOOLEAN
    /\ fgArgs \in FgInputs \cup {NoArgs}
    /\ fgStatus \in {"none", "STATUS_CMD_OK", "STATUS_CMD_ERROR",
                      "STATUS_INVALID_ARGS"}
    /\ resumed \in {None, Some(TRUE), Some(FALSE)}
    /\ tmodes \in {None} \cup {Some(m) : m \in Modes}
    /\ wants \in BOOLEAN
    /\ stdin \in StdinKinds
    /\ ttyOwner \in {FishPgrp, OtherPgrp, ChildPgid}
    /\ termios \in Modes
    /\ nrun \in 0..MaxProcs
    /\ nzomb \in 0..MaxProcs
    /\ errno \in Errnos \cup {"0"}
    /\ result \in {"none", "true", "false"}
    /\ nassign \in 0..MaxAssign
    /\ binds \in 0..MaxBinds

\* ------------------------------------------------------------ the claims
\* A to_job_group call is over: it returned or it panicked.
CallOver == pc \in {"caller", "panic"}

\* C1: to_job_group on an idle handle trips no assertion, and once it has
\* returned the handle is bound exactly when the attempt reported success.
C1_IdleTransferPermitted ==
    (lastOp = "to_job_group" /\ preOwner = None) =>
        /\ panicMsg # "Terminal already transferred"
        /\ (pc = "caller" => ((owner = Some(JG)) <=> (result = "true")))

\* No execution gets into try_transfer: the handle is never bound, no owner
\* query, assignment or probe is made, and no attempt reports a result.
TryTransferUnreached ==
    /\ owner = None
    /\ binds = 0
    /\ pc \notin {"query", "assign", "requery", "probe", "fg_resume",
                  "fg_save", "fg_reclaim", "fg_return"}
    /\ result = "none"
    /\ nassign = 0
    /\ nquery = 0
    /\ nprobe = 0
    /\ tmodes = None

\* C3: for a job group that does not want the terminal, to_job_group on an
\* idle handle returns with the attempt reporting false, the handle idle, and
\* no owner assignment and no owner query made.
C3_NoWantNoSyscall ==
    (lastOp = "to_job_group" /\ preOwner = None /\ ~wants /\ CallOver) =>
        /\ pc = "caller"
        /\ result = "false"
        /\ owner = None
        /\ nassign = 0
        /\ nquery = 0

\* C3, the part the code keeps: whatever the handle, a call for a job group
\* that does not want the terminal makes no terminal system call and leaves
\* the handle and the terminal's owner as they were.
C3_NoWantTouchesNothing ==
    (lastOp = "to_job_group" /\ ~wants) =>
        /\ CallOver
        /\ owner = preOwner
        /\ nassign = 0
        /\ nquery = 0
        /\ nprobe = 0
        /\ ttyAtRet = ttyAtCall

\* A to_job_group call was made for a job group that wants the terminal and
\* has a process group of its own, with the terminal there.
WantedCall ==
    /\ lastOp = "to_job_group"
    /\ wants
    /\ pgid = Some(ChildPgid)
    /\ stdin = "tty"

\* C4: a call for a job group that wants the terminal, made while the job's
\* process group already owns the terminal, returns with the attempt reporting
\* true, the handle bound and no assignment made.
C4_AlreadyOwnerNoAssign ==
    (WantedCall /\ ttyAtCall = ChildPgid /\ ttyOwner = ChildPgid) =>
        /\ pc # "panic"
        /\ result = "true"
        /\ owner = Some(JG)
        /\ nassign = 0

\* C5: a call made while a process group that is neither the job's nor the
\* shell's owns the terminal returns with the attempt reporting false, no
\* assignment made and the terminal's owner as it was.
C5_ThirdPartyNoTransfer ==
    (WantedCall /\ ttyAtCall = OtherPgrp /\ ttyOwner = OtherPgrp) =>
        /\ pc # "panic"
        /\ result = "false"
        /\ owner = None
        /\ nassign = 0
        /\ ttyAtRet = OtherPgrp

\* C6: a call made while the shell's group owns the terminal and the job has a
\* running process, which may claim the terminal at any moment, ends with the
\* attempt reporting true and the job's group owning the terminal.
C6_RaceResolved ==
    (WantedCall /\ ttyAtCall = FishPgrp /\ runAtCall > 0 /\ CallOver) =>
        /\ pc # "panic"
        /\ result = "true"
        /\ ttyAtRet = ChildPgid

\* C7: a call made while the shell's group owns the terminal and the job's
\* process group has no member left ends with the attempt reporting false after
\* at most one assignment.
C7_DeadGroupBounded ==
    (WantedCall /\ ttyAtCall = FishPgrp /\ runAtCall = 0 /\ zombAtCall = 0
        /\ CallOver) =>
        /\ pc # "panic"
        /\ result = "false"
        /\ nassign <= 1

\* try_transfer is running.
InTransfer == pc \in {"query", "assign", "requery", "probe"}

\* C8: every to_job_group call for a job group that wants the terminal and has
\* a process group of its own eventually returns, the attempt having reported
\* true or false.
C8_TransferReturns ==
    (lastOp = "to_job_group" /\ wants /\ pgid = Some(ChildPgid)) ~>
        (pc # "panic" /\ result # "none")

C11_OwnPgidAlwaysAsserts ==
    (lastOp = "to_job_group" /\ pgid = Some(FishPgrp)) =>
        /\ pc = "panic"
        /\ panicMsg # ""
        /\ result = "none"
        /\ owner = preOwner
        /\ nquery = 0
        /\ nassign = 0

\* The call was made for a job group that does not want the terminal.
C11_Witness ==
    /\ lastOp = "to_job_group"
    /\ pgid = Some(FishPgrp)
    /\ ~wants
    /\ pc = "panic"
    /\ result = "none"

Did(step) == \E i \in 1..Len(fgLog) : fgLog[i] = step

\* The job the last fg call was given by pid exists, is constructed, is not
\* completed and is under job control.
PidQualifies ==
    /\ fgArgs.mode = "pid"
    /\ fgArgs.found
    /\ fgArgs.constructed
    /\ ~fgArgs.completed
    /\ fgArgs.jobctl

\* C13: an fg call that got as far as the handoff does not abort in it, and
\* once it has returned, it has resumed the job and its status is the one the
\* resume decides.
C13_HandoffNeverAborts ==
    /\ Did("handoff") => pc # "panic"
    /\ (Did("handoff") /\ pc = "dropped") =>
           (Did("resume") /\ fgStatus = FgStatusOf(resumed[1]))

\* C15: for the pid of a job that exists, is constructed, is not completed and
\* is under job control, fg selects the job and prints no error; "No suitable
\* job" and "not under job control" are printed only for a pid with no
\* such job; and a pid that is no job's gets STATUS_INVALID_ARGS, not a panic.
C15_PidSelectsJob ==
    /\ PidQualifies => (fgStatus # "STATUS_INVALID_ARGS" /\ fgMsg = "")
    /\ (fgMsg \in {"No suitable job", "not under job control"}) =>
           ~PidQualifies
    /\ (fgArgs.mode = "pid" /\ ~fgArgs.found) =>
           (pc # "panic" /\ fgStatus = "STATUS_INVALID_ARGS")

\* C18: what an fg call does with its handle is a prefix of handoff, resume,
\* save_tty_modes (if the job was stopped), reclaim; and when its frame is gone
\* after the handoff began, reclaim was the last of them and the handle is
\* idle.
C18_FgOrder ==
    LET acts == SelectSeq(fgLog, LAMBDA x : x # "restore") IN
    /\ \E full \in {<<"handoff", "resume", "save", "reclaim">>,
                    <<"handoff", "resume", "reclaim">>} :
           /\ Len(acts) <= Len(full)
           /\ acts = SubSeq(full, 1, Len(acts))
    /\ (acts # <<>> /\ pc \in {"panic", "dropped"}) =>
           (acts[Len(acts)] = "reclaim" /\ owner = None)
====
